---- MODULE Spec2Model ----
(***************************************************************************)
(* A model of src/app.js (t0oms/voxelize): the scene, the asynchronous     *)
(* model loader, and the voxelization pipeline                             *)
(*   getDimensions -> calculateGrid -> material capture -> scene.remove    *)
(*   -> clearScene -> drawGrid.                                            *)
(* JavaScript numbers are IEEE-754 binary64 values; the arithmetic of      *)
(* calculateCoordinates and doesVoxelIntersectObject is modelled with      *)
(* correctly rounded (round-to-nearest-even, 53 bit) operations on exact   *)
(* fixed-point magnitudes held as sequences of 15-bit limbs.               *)
(***************************************************************************)
EXTENDS Integers, Sequences, FiniteSets, Bags, TLC

(***************************************************************************)
(* Natural numbers of arbitrary size: little-endian sequences of limbs,    *)
(* without leading (high) zero limbs; <<>> is zero.                        *)
(***************************************************************************)
Base == 32768
LimbBits == 15
\* number of fraction limbs of the fixed-point scale: a magnitude m stands
\* for the real number m * 2^-(LimbBits * FracLimbs)
FracLimbs == 5
\* significand width of a JavaScript Number (binary64)
Precision == 53

MaxOf(a, b) == IF a >= b THEN a ELSE b

Limb(a, i) == IF i >= 1 /\ i <= Len(a) THEN a[i] ELSE 0

RECURSIVE Trim(_)
Trim(a) ==
    IF a = <<>> THEN <<>>
    ELSE IF a[Len(a)] = 0 THEN Trim(SubSeq(a, 1, Len(a) - 1)) ELSE a

RECURSIVE BigAddFrom(_, _, _, _)
BigAddFrom(a, b, i, c) ==
    IF i > MaxOf(Len(a), Len(b))
    THEN (IF c = 0 THEN <<>> ELSE <<c>>)
    ELSE LET t == Limb(a, i) + Limb(b, i) + c
         IN  <<t % Base>> \o BigAddFrom(a, b, i + 1, t \div Base)

BigAdd(a, b) == Trim(BigAddFrom(a, b, 1, 0))

\* a - b for a >= b
RECURSIVE BigSubFrom(_, _, _, _)
BigSubFrom(a, b, i, br) ==
    IF i > Len(a) THEN <<>>
    ELSE LET t == Limb(a, i) - Limb(b, i) - br
         IN  IF t < 0 THEN <<t + Base>> \o BigSubFrom(a, b, i + 1, 1)
                      ELSE <<t>> \o BigSubFrom(a, b, i + 1, 0)

BigSub(a, b) == Trim(BigSubFrom(a, b, 1, 0))

\* -1, 0, 1 as a < b, a = b, a > b (a and b trimmed)
RECURSIVE BigCmpFrom(_, _, _)
BigCmpFrom(a, b, i) ==
    IF i = 0 THEN 0
    ELSE IF a[i] < b[i] THEN -1
    ELSE IF a[i] > b[i] THEN 1
    ELSE BigCmpFrom(a, b, i - 1)

BigCmp(a, b) ==
    IF Len(a) < Len(b) THEN -1
    ELSE IF Len(a) > Len(b) THEN 1
    ELSE BigCmpFrom(a, b, Len(a))

RECURSIVE BigMulSmallFrom(_, _, _, _)
BigMulSmallFrom(a, k, i, c) ==
    IF i > Len(a)
    THEN (IF c = 0 THEN <<>> ELSE <<c>>)
    ELSE LET t == a[i] * k + c
         IN  <<t % Base>> \o BigMulSmallFrom(a, k, i + 1, t \div Base)

\* a * k for 0 <= k < Base
BigMulSmall(a, k) == Trim(BigMulSmallFrom(a, k, 1, 0))

ShiftLimbs(a, n) == IF a = <<>> THEN <<>> ELSE [i \in 1..n |-> 0] \o a

RECURSIVE BigMulFrom(_, _, _)
BigMulFrom(a, b, i) ==
    IF i > Len(a) THEN <<>>
    ELSE BigAdd(ShiftLimbs(BigMulSmall(b, a[i]), i - 1), BigMulFrom(a, b, i + 1))

BigMul(a, b) == BigMulFrom(a, b, 1)

\* quotient and remainder of a by a small divisor 0 < d < 2 * Base
RECURSIVE BigDivSmallFrom(_, _, _, _)
BigDivSmallFrom(a, d, i, r) ==
    IF i = 0 THEN [q |-> <<>>, r |-> r]
    ELSE LET cur  == r * Base + a[i]
             rest == BigDivSmallFrom(a, d, i - 1, cur % d)
         IN  [q |-> rest.q \o <<cur \div d>>, r |-> rest.r]

BigDivSmall(a, d) ==
    LET res == BigDivSmallFrom(a, d, Len(a), 0)
    IN  [q |-> Trim(res.q), r |-> res.r]

RECURSIVE SmallBitLen(_)
SmallBitLen(n) == IF n = 0 THEN 0 ELSE 1 + SmallBitLen(n \div 2)

BitLen(a) == IF a = <<>> THEN 0 ELSE LimbBits * (Len(a) - 1) + SmallBitLen(a[Len(a)])

\* 2^n
BigPow2(n) == [i \in 1..(n \div LimbBits) |-> 0] \o <<2 ^ (n % LimbBits)>>

\* a mod 2^n
BigLowBits(a, n) ==
    Trim([i \in 1..Len(a) |->
            IF i <= n \div LimbBits THEN a[i]
            ELSE IF i = n \div LimbBits + 1 THEN a[i] % (2 ^ (n % LimbBits))
            ELSE 0])

\* bit n (0 = least significant) of a
BigBit(a, n) == (Limb(a, n \div LimbBits + 1) \div (2 ^ (n % LimbBits))) % 2

\* a (plus, when sticky, a positive amount below one unit) rounded to
\* Precision significant bits, ties to even
\* trunc is a with its low drop bits cleared; c compares the cleared bits
\* with half a unit of the last place kept
RoundUpIf(trunc, drop, c, tieUp) ==
    IF c = 1 \/ (c = 0 /\ tieUp) THEN BigAdd(trunc, BigPow2(drop)) ELSE trunc

RoundLow(a, sticky, drop, rem) ==
    RoundUpIf(BigSub(a, rem), drop, BigCmp(rem, BigPow2(drop - 1)),
              sticky \/ BigBit(a, drop) = 1)

RoundAt(a, sticky, drop) ==
    IF drop <= 0 THEN a ELSE RoundLow(a, sticky, drop, BigLowBits(a, drop))

RoundBig(a, sticky) == RoundAt(a, sticky, BitLen(a) - Precision)

\* a without its n lowest limbs
DropLimbs(a, n) == IF Len(a) <= n THEN <<>> ELSE SubSeq(a, n + 1, Len(a))

(***************************************************************************)
(* JavaScript Number values.  A finite value is sign and magnitude, the    *)
(* magnitude being an exact multiple of 2^-(LimbBits * FracLimbs); the     *)
(* other values are +Infinity, -Infinity and NaN.  (-0 is held as 0: the   *)
(* program never distinguishes them.)                                      *)
(***************************************************************************)
\* extra limbs of quotient computed before a division is rounded
GuardLimbs == 4

NaN == [k |-> "nan", neg |-> FALSE, mag |-> <<>>]
Infinity(neg) == [k |-> "inf", neg |-> neg, mag |-> <<>>]
Fin(neg, mag) == [k |-> "fin", neg |-> (neg /\ mag # <<>>), mag |-> mag]

IsZero(x) == x.k = "fin" /\ x.mag = <<>>
IsFinite(x) == x.k = "fin"

Abs(n) == IF n < 0 THEN -n ELSE n

\* the Number holding the integer n, |n| < Base
FromInt(n) == Fin(n < 0, ShiftLimbs(Trim(<<Abs(n)>>), FracLimbs))

FNeg(x) == IF x.k = "nan" THEN NaN
           ELSE IF x.k = "inf" THEN Infinity(~x.neg)
           ELSE Fin(~x.neg, x.mag)

\* the exact sum of two finite values of opposite sign; c is
\* BigCmp(x.mag, y.mag)
ExactDifference(x, y, c) ==
    IF c = 0 THEN Fin(FALSE, <<>>)
    ELSE IF c = 1 THEN Fin(x.neg, BigSub(x.mag, y.mag))
    ELSE Fin(y.neg, BigSub(y.mag, x.mag))

\* the exact sum of two finite values
ExactSum(x, y) ==
    IF x.neg = y.neg THEN Fin(x.neg, BigAdd(x.mag, y.mag))
    ELSE ExactDifference(x, y, BigCmp(x.mag, y.mag))

Rounded(x) == Fin(x.neg, RoundBig(x.mag, FALSE))

\* x + y
FAdd(x, y) ==
    IF x.k = "nan" \/ y.k = "nan" THEN NaN
    ELSE IF x.k = "inf" /\ y.k = "inf"
         THEN (IF x.neg = y.neg THEN x ELSE NaN)
    ELSE IF x.k = "inf" THEN x
    ELSE IF y.k = "inf" THEN y
    ELSE Rounded(ExactSum(x, y))

\* x - y
FSub(x, y) == FAdd(x, FNeg(y))

\* x * y
FMul(x, y) ==
    IF x.k = "nan" \/ y.k = "nan" THEN NaN
    ELSE IF x.k = "inf" \/ y.k = "inf"
         THEN (IF IsZero(x) \/ IsZero(y) THEN NaN ELSE Infinity(x.neg # y.neg))
    ELSE Fin(x.neg # y.neg, DropLimbs(RoundBig(BigMul(x.mag, y.mag), FALSE), FracLimbs))

\* d is a quotient with GuardLimbs extra limbs and its remainder
RoundedQuotient(d) == DropLimbs(RoundBig(d.q, d.r # 0), GuardLimbs)

\* x / n for an integer-valued divisor n, |n| < Base
FDivInt(x, n) ==
    IF x.k = "nan" THEN NaN
    ELSE IF x.k = "inf" THEN Infinity(x.neg # (n < 0))
    ELSE IF n = 0 THEN (IF IsZero(x) THEN NaN ELSE Infinity(x.neg))
    ELSE Fin(x.neg # (n < 0),
             RoundedQuotient(BigDivSmall(ShiftLimbs(x.mag, GuardLimbs), Abs(n))))

\* x < y, x <= y, x = y as JavaScript compares Numbers (NaN compares false)
FLess(x, y) ==
    IF x.k = "nan" \/ y.k = "nan" THEN FALSE
    ELSE IF x.k = "inf" THEN x.neg /\ ~(y.k = "inf" /\ y.neg)
    ELSE IF y.k = "inf" THEN ~y.neg
    ELSE IF x.neg /\ ~y.neg THEN TRUE
    ELSE IF ~x.neg /\ y.neg THEN FALSE
    ELSE IF x.neg THEN BigCmp(x.mag, y.mag) = 1
    ELSE BigCmp(x.mag, y.mag) = -1

FEq(x, y) == x.k # "nan" /\ y.k # "nan" /\ x = y

FLeq(x, y) == FLess(x, y) \/ FEq(x, y)

\* calculateCoordinates with the parentheses around (index - halfGridSize)
\* left out
calculateCoordinatesUnparenthesized(index, gridSize, perUnit) ==
    LET voxelSize     == FDivInt(FromInt(1), perUnit)
        halfGridSize  == FDivInt(FromInt(gridSize), 2)
        halfVoxelSize == FDivInt(voxelSize, 2)
    IN  FAdd(FSub(FromInt(index), FMul(halfGridSize, voxelSize)), halfVoxelSize)

\* calculateCoordinates without the half-voxel offset: the cell's lower edge
calculateCoordinatesOfEdge(index, gridSize, perUnit) ==
    LET voxelSize    == FDivInt(FromInt(1), perUnit)
        halfGridSize == FDivInt(FromInt(gridSize), 2)
    IN  FMul(FSub(FromInt(index), halfGridSize), voxelSize)

\* src/app.js:196-203.  perUnit is the value of voxelsPerUnit, the module-level variable the
\* function reads; index and gridSize are integer-valued.
calculateCoordinates(index, gridSize, perUnit) ==
    LET voxelSize     == FDivInt(FromInt(1), perUnit)
        halfGridSize  == FDivInt(FromInt(gridSize), 2)
        halfVoxelSize == FDivInt(voxelSize, 2)
    IN  FAdd(FMul(FSub(FromInt(index), halfGridSize), voxelSize), halfVoxelSize)

\* Math.ceil of a finite Number below Base, as an integer
MathCeil(x) ==
    LET whole == Limb(x.mag, FracLimbs + 1)
        frac  == Trim(SubSeq(x.mag, 1, IF Len(x.mag) < FracLimbs THEN Len(x.mag) ELSE FracLimbs))
    IN  IF x.neg THEN -whole
        ELSE IF frac = <<>> THEN whole ELSE whole + 1

(***************************************************************************)
(* The loaded models.  The .glb assets are not part of the sources; each   *)
(* model is taken to be a closed axis-aligned box surface, given by its    *)
(* bounding-box size in half units, centred on the origin by centerObject  *)
(* (src/app.js:60-65, 84).                                                 *)
(***************************************************************************)
ModelNames == {"heart", "cone"}

ModelSize2(name) == IF name = "heart" THEN <<2, 2, 2>> ELSE <<1, 2, 1>>

\* Box3.setFromObject(object).getSize(): the bounding-box size per axis
BoxSize(name, axis) == FDivInt(FromInt(ModelSize2(name)[axis]), 2)

\* half of the extent per axis: the faces lie at -h and +h
HalfExtents ==
    {[name |-> e[1], axis |-> e[2], h |-> FDivInt(FromInt(ModelSize2(e[1])[e[2]]), 4)] :
        e \in ModelNames \X (1..3)}

HalfExtent(name, axis) == (CHOOSE e \in HalfExtents : e.name = name /\ e.axis = axis).h

\* src/app.js:122-133
getDimensions(name) ==
    [x |-> MathCeil(BoxSize(name, 1)),
     y |-> MathCeil(BoxSize(name, 2)),
     z |-> MathCeil(BoxSize(name, 3))]

Within(v, h) == FLeq(FNeg(h), v) /\ FLeq(v, h)

\* a crossing at a signed distance along the ray counts when it is not
\* behind the origin
InFront(distance) == IF FLeq(FromInt(0), distance) THEN <<distance>> ELSE <<>>

\* the crossings of the faces at -h and +h seen from coordinate o
Crossings(o, h) == InFront(FSub(FNeg(h), o)) \o InFront(FSub(h, o))

\* Raycaster.intersectObject(object, true) for a ray from origin along the
\* positive axis `axis`: the distances of the surface crossings in front of
\* the origin, nearest first.
intersectObject(name, origin, axis) ==
    LET a1 == IF axis = 1 THEN 2 ELSE 1
        a2 == IF axis = 3 THEN 2 ELSE 3
    IN  IF ~(Within(origin[a1], HalfExtent(name, a1)) /\ Within(origin[a2], HalfExtent(name, a2)))
        THEN <<>>
        ELSE Crossings(origin[axis], HalfExtent(name, axis))

\* src/app.js:171, 179, 187
NearestWithin(intersects, size) == Len(intersects) > 0 /\ FLeq(intersects[1], size)

\* the hit test with a strict comparison: a hit at exactly size is a miss
AnyCornerHitsStrictly(corners, axis, size, target) ==
    \E c \in 1..Len(corners) :
        LET intersects == intersectObject(target, corners[c], axis)
        IN  Len(intersects) > 0 /\ FLess(intersects[1], size)

\* one of the three loops of src/app.js:167-190: some corner's ray has a
\* nearest hit within size
AnyCornerHits(corners, axis, size, target) ==
    \E c \in 1..Len(corners) : NearestWithin(intersectObject(target, corners[c], axis), size)

\* src/app.js:141-192, the coordinates of the faces being
\* xm = x-halfSize, xp = x+halfSize and so on
FaceRaysHit(xm, xp, ym, yp, zm, zp, size, target) ==
    LET leftFaceCorners   == << <<xm, ym, zm>>, <<xm, ym, zp>>, <<xm, yp, zm>>, <<xm, yp, zp>> >>
        bottomFaceCorners == << <<xm, ym, zm>>, <<xp, ym, zm>>, <<xm, ym, zp>>, <<xp, ym, zp>> >>
        backFaceCorners   == << <<xm, ym, zm>>, <<xp, ym, zm>>, <<xm, yp, zm>>, <<xp, yp, zm>> >>
    IN  \/ AnyCornerHits(leftFaceCorners, 1, size, target)
        \/ AnyCornerHits(bottomFaceCorners, 2, size, target)
        \/ AnyCornerHits(backFaceCorners, 3, size, target)

CornerRaysHit(x, y, z, size, halfSize, target) ==
    FaceRaysHit(FSub(x, halfSize), FAdd(x, halfSize),
                FSub(y, halfSize), FAdd(y, halfSize),
                FSub(z, halfSize), FAdd(z, halfSize), size, target)

\* src/app.js:136-193; target is the model currentObject refers to
doesVoxelIntersectObject(x, y, z, size, target) ==
    CornerRaysHit(x, y, z, size, FDivInt(size, 2), target)

\* the object literal of src/app.js:219-224
CellAt(x, y, z, perUnit, target) ==
    [value |-> doesVoxelIntersectObject(x, y, z, FDivInt(FromInt(1), perUnit), target),
     x |-> x, y |-> y, z |-> z]

\* the body of the innermost loop, src/app.js:216-224
GridCell(i, j, k, sizeX, sizeY, sizeZ, perUnit, target) ==
    CellAt(calculateCoordinates(i, sizeX, perUnit),
           calculateCoordinates(j, sizeY, perUnit),
           calculateCoordinates(k, sizeZ, perUnit), perUnit, target)

\* the innermost loop with an exclusive upper bound
RECURSIVE GridLoopKExclusive(_, _, _, _, _, _, _, _)
GridLoopKExclusive(i, j, k, sizeX, sizeY, sizeZ, perUnit, target) ==
    IF k < sizeZ
    THEN <<GridCell(i, j, k, sizeX, sizeY, sizeZ, perUnit, target)>>
         \o GridLoopKExclusive(i, j, k + 1, sizeX, sizeY, sizeZ, perUnit, target)
    ELSE <<>>

\* the three nested loops of src/app.js:208-227; the array element with
\* JavaScript index n is element n + 1 of the sequence
RECURSIVE GridLoopK(_, _, _, _, _, _, _, _)
GridLoopK(i, j, k, sizeX, sizeY, sizeZ, perUnit, target) ==
    IF k <= sizeZ
    THEN <<GridCell(i, j, k, sizeX, sizeY, sizeZ, perUnit, target)>>
         \o GridLoopK(i, j, k + 1, sizeX, sizeY, sizeZ, perUnit, target)
    ELSE <<>>

RECURSIVE GridLoopJ(_, _, _, _, _, _, _)
GridLoopJ(i, j, sizeX, sizeY, sizeZ, perUnit, target) ==
    IF j <= sizeY
    THEN <<GridLoopK(i, j, 0, sizeX, sizeY, sizeZ, perUnit, target)>>
         \o GridLoopJ(i, j + 1, sizeX, sizeY, sizeZ, perUnit, target)
    ELSE <<>>

RECURSIVE GridLoopI(_, _, _, _, _, _)
GridLoopI(i, sizeX, sizeY, sizeZ, perUnit, target) ==
    IF i <= sizeX
    THEN <<GridLoopJ(i, 0, sizeX, sizeY, sizeZ, perUnit, target)>>
         \o GridLoopI(i + 1, sizeX, sizeY, sizeZ, perUnit, target)
    ELSE <<>>

\* src/app.js:206-230
calculateGrid(sizeX, sizeY, sizeZ, perUnit, target) ==
    GridLoopI(0, sizeX, sizeY, sizeZ, perUnit, target)

(***************************************************************************)
(* Bounds of the model.                                                    *)
(***************************************************************************)
\* loadModel calls in one behaviour, the one at src/app.js:18 included
MaxLoads == 2
\* voxelize calls that get past getDimensions in one behaviour
MaxPasses == 2
\* the size selector offers the values -1 .. MaxDensityInput
MaxDensityInput == 1

\* src/app.js:7
DefaultVoxelsPerUnit == 6

\* changeVoxelsPerUnit stores whatever value it is handed (src/app.js:68-70)
DensityInputs == (-1)..MaxDensityInput

Densities == DensityInputs \cup {DefaultVoxelsPerUnit}

\* calculateGrid for the extents voxelize passes it (src/app.js:254-261),
\* evaluated once for each model and density
GridTable ==
    {[name    |-> t[1],
      density |-> t[2],
      grid    |-> LET dimensions == getDimensions(t[1])
                  IN  calculateGrid(dimensions.x * t[2], dimensions.y * t[2],
                                    dimensions.z * t[2], t[2], t[1])] :
        t \in ModelNames \X Densities}

GridCache(name, d) == (CHOOSE t \in GridTable : t.name = name /\ t.density = d).grid

(***************************************************************************)
(* The program state.                                                      *)
(***************************************************************************)
VARIABLES
    scene,          \* scene.children, a set of nodes
    currentObject,  \* 0 (undefined) or the index in objects of a loaded model
    objects,        \* the gltf.scene objects the loader has produced: their model names
    pending,        \* the bag of model names of the loads in flight
    voxelsPerUnit,
    pc,             \* the statement of voxelize about to run; "idle" between events
    sizes,           \* voxelize's sizeX, sizeY, sizeZ
    grid,           \* voxelize's grid
    material,       \* voxelize's material
    disposed,       \* geometries and materials that have been dispose()d
    outcome,        \* how the last voxelize call ended
    log,            \* the statements of the current or last voxelize call, in order
    history,        \* the completed passes: object, density, voxels left in the scene
    input,          \* arguments of the function under study (SpecCoord, SpecGrid, SpecSampler)
    output          \* its results

vars == <<scene, currentObject, objects, pending, voxelsPerUnit, pc, sizes, grid,
          material, disposed, outcome, log, history, input, output>>

pipeline == <<pc, sizes, grid, material, outcome, log, history>>

Nothing == <<>>

\* the HemisphereLight init adds (src/app.js:30-32)
LightNode ==
    [isMesh |-> FALSE, id |-> <<"light">>, position |-> Nothing,
     geometry |-> Nothing, material |-> Nothing]

\* gltf.scene, the root Group of a loaded model; its meshes are below it
ModelNode(o) ==
    [isMesh |-> FALSE, id |-> <<"gltf", o>>, position |-> Nothing,
     geometry |-> Nothing, material |-> Nothing]

\* the meshes below the root of a loaded model
NumMeshes(name) == IF name = "heart" THEN 1 ELSE 2

MeshGeometry(o, n) == <<"geometry", o, n>>
MeshMaterial(o, n) == <<"material", o, n>>

\* the THREE.Mesh drawGrid creates for cell (i, j, k) (src/app.js:241-245)
VoxelNode(pass, i, j, k, cell, mat) ==
    [isMesh |-> TRUE, id |-> <<"voxel", pass, i, j, k>>,
     position |-> <<cell.x, cell.y, cell.z>>,
     geometry |-> <<"BoxGeometry", pass, i, j, k>>, material |-> mat]

IsModelNode(n) == n.id[1] = "gltf"

\* a clearScene that leaves the meshes in the scene
clearSceneKeepsMeshes(sc, disp) == [scene |-> sc, disposed |-> disp]

\* src/app.js:105-119: the scene and the disposed resources afterwards
clearScene(sc, disp) ==
    LET meshes == {child \in sc : child.isMesh}
    IN  [scene    |-> sc \ meshes,
         disposed |-> disp \cup {child.geometry : child \in {c \in meshes : c.geometry # Nothing}}
                           \cup {child.material : child \in {c \in meshes : c.material # Nothing}}]

\* src/app.js:233-250: the meshes added to the scene
drawGrid(sizeX, sizeY, sizeZ, g, mat, pass) ==
    {VoxelNode(pass, i, j, k, g[i + 1][j + 1][k + 1], mat) :
        <<i, j, k>> \in {t \in (0..sizeX) \X (0..sizeY) \X (0..sizeZ) :
                            g[t[1] + 1][t[2] + 1][t[3] + 1].value}}

\* voxelize with the removal moved in front of the sampling
StageAfterRemoveFirst(stage) ==
    CASE stage = "getDimensions" -> "remove"
      [] stage = "remove"        -> "clearScene"
      [] stage = "clearScene"    -> "calculateGrid"
      [] stage = "calculateGrid" -> "traverse"
      [] stage = "traverse"      -> "drawGrid"
      [] stage = "drawGrid"      -> "idle"

\* the order of the statements of voxelize (src/app.js:253-277)
StageAfter(stage) ==
    CASE stage = "getDimensions" -> "calculateGrid"
      [] stage = "calculateGrid" -> "traverse"
      [] stage = "traverse"      -> "remove"
      [] stage = "remove"        -> "clearScene"
      [] stage = "clearScene"    -> "drawGrid"
      [] stage = "drawGrid"      -> "idle"

(***************************************************************************)
(* The state after the module's top level has run (src/app.js:6-20):       *)
(* loadModel('heart') found currentObject undefined and started a load;    *)
(* init() built the scene.                                                 *)
(***************************************************************************)
Init ==
    /\ scene = {LightNode}
    /\ currentObject = 0
    /\ objects = <<>>
    /\ pending = SetToBag({"heart"})
    /\ voxelsPerUnit = DefaultVoxelsPerUnit
    /\ pc = "idle"
    /\ sizes = Nothing
    /\ grid = Nothing
    /\ material = Nothing
    /\ disposed = {}
    /\ outcome = "none"
    /\ log = <<>>
    /\ history = <<>>
    /\ input = Nothing
    /\ output = Nothing

\* the 'change' listener of size-select (src/app.js:46-48, 68-70)
\* newSize is the number the option's string value converts to where
\* voxelize multiplies and divides by it
changeVoxelsPerUnit(newSize) ==
    /\ pc = "idle"
    /\ voxelsPerUnit' = newSize
    /\ UNCHANGED <<scene, currentObject, objects, pending, disposed, pipeline, input, output>>

\* the 'change' listener of object-select (src/app.js:50-52, 73-87), up to
\* the start of the asynchronous load
loadModel(name) ==
    /\ pc = "idle"
    /\ Len(objects) + BagCardinality(pending) < MaxLoads
    /\ IF currentObject # 0
       THEN LET cleared == clearScene(scene \ {ModelNode(currentObject)}, disposed)
            IN  scene' = cleared.scene /\ disposed' = cleared.disposed
       ELSE UNCHANGED <<scene, disposed>>
    /\ pending' = pending (+) SetToBag({name})
    /\ UNCHANGED <<currentObject, objects, voxelsPerUnit, pipeline, input, output>>

\* the loader's completion callback of a load of `name` in flight
\* (src/app.js:82-86); loads complete in any order
loadCallback(name) ==
    /\ pc = "idle"
    /\ BagIn(name, pending)
    /\ objects' = Append(objects, name)
    /\ currentObject' = Len(objects) + 1
    /\ scene' = scene \cup {ModelNode(Len(objects) + 1)}
    /\ pending' = pending (-) SetToBag({name})
    /\ UNCHANGED <<voxelsPerUnit, disposed, pipeline, input, output>>

\* a click on 'voxelize' with no model loaded: getDimensions(undefined)
\* throws out of Box3.setFromObject (src/app.js:254, 126)
voxelizeThrows ==
    /\ pc = "idle"
    /\ currentObject = 0
    /\ outcome' = "TypeError"
    /\ log' = <<"getDimensions">>
    /\ UNCHANGED <<scene, currentObject, objects, pending, voxelsPerUnit, disposed,
                   pc, sizes, grid, material, history, input, output>>

\* src/app.js:254-258
voxelizeDimensions ==
    /\ pc = "idle"
    /\ currentObject # 0
    /\ Len(history) < MaxPasses
    /\ LET dimensions == getDimensions(objects[currentObject])
       IN  sizes' = <<dimensions.x * voxelsPerUnit,
                     dimensions.y * voxelsPerUnit,
                     dimensions.z * voxelsPerUnit>>
    /\ pc' = StageAfter("getDimensions")
    /\ outcome' = "running"
    /\ log' = <<"getDimensions">>
    /\ grid' = Nothing
    /\ material' = Nothing
    /\ UNCHANGED <<scene, currentObject, objects, pending, voxelsPerUnit, disposed,
                   history, input, output>>

\* src/app.js:261
voxelizeCalculateGrid ==
    /\ pc = "calculateGrid"
    /\ grid' = GridCache(objects[currentObject], voxelsPerUnit)
    /\ pc' = StageAfter(pc)
    /\ log' = Append(log, "calculateGrid")
    /\ UNCHANGED <<scene, currentObject, objects, pending, voxelsPerUnit, disposed,
                   sizes, material, outcome, history, input, output>>

\* src/app.js:263-268: the clone of the material of the last mesh visited
voxelizeTraverse ==
    /\ pc = "traverse"
    /\ material' = <<"clone", Len(history) + 1,
                     MeshMaterial(currentObject, NumMeshes(objects[currentObject]))>>
    /\ pc' = StageAfter(pc)
    /\ log' = Append(log, "clone")
    /\ UNCHANGED <<scene, currentObject, objects, pending, voxelsPerUnit, disposed,
                   sizes, grid, outcome, history, input, output>>

\* src/app.js:270-271
voxelizeRemove ==
    /\ pc = "remove"
    /\ scene' = scene \ {ModelNode(currentObject)}
    /\ pc' = StageAfter(pc)
    /\ log' = Append(log, "remove")
    /\ UNCHANGED <<currentObject, objects, pending, voxelsPerUnit, disposed,
                   sizes, grid, material, outcome, history, input, output>>

\* src/app.js:272
voxelizeClearScene ==
    /\ pc = "clearScene"
    /\ LET cleared == clearScene(scene, disposed)
       IN  scene' = cleared.scene /\ disposed' = cleared.disposed
    /\ pc' = StageAfter(pc)
    /\ log' = Append(log, "clearScene")
    /\ UNCHANGED <<currentObject, objects, pending, voxelsPerUnit,
                   sizes, grid, material, outcome, history, input, output>>

VoxelMeshes(sc) == {n \in sc : n.isMesh}

\* src/app.js:276-277
voxelizeDrawGrid ==
    /\ pc = "drawGrid"
    /\ scene' = scene \cup drawGrid(sizes[1], sizes[2], sizes[3], grid, material, Len(history) + 1)
    /\ pc' = StageAfter(pc)
    /\ outcome' = "returned"
    /\ log' = Append(log, "drawGrid")
    /\ history' = Append(history,
                         [object    |-> currentObject,
                          density   |-> voxelsPerUnit,
                          count     |-> Cardinality(VoxelMeshes(scene')),
                          positions |-> {n.position : n \in VoxelMeshes(scene')}])
    /\ UNCHANGED <<currentObject, objects, pending, voxelsPerUnit, disposed,
                   sizes, grid, material, input, output>>

Next ==
    \/ \E newSize \in DensityInputs : changeVoxelsPerUnit(newSize)
    \/ \E name \in ModelNames : loadModel(name)
    \/ \E name \in ModelNames : loadCallback(name)
    \/ voxelizeThrows
    \/ voxelizeDimensions
    \/ voxelizeCalculateGrid
    \/ voxelizeTraverse
    \/ voxelizeRemove
    \/ voxelizeClearScene
    \/ voxelizeDrawGrid

Spec == Init /\ [][Next]_vars

(***************************************************************************)
(* Specifications of the pure functions: the arguments are drawn from      *)
(* bounded sets in the initial state and the function is applied to them.  *)
(***************************************************************************)
\* largest gridSize handed to calculateCoordinates in SpecCoord
MaxGridSize == 6
\* largest voxelsPerUnit in SpecCoord
MaxCoordDensity == 6
\* largest extent per axis handed to calculateGrid in SpecGrid
MaxExtent == 2
\* largest voxelsPerUnit in SpecGrid and SpecSampler
MaxSamplerDensity == 3

\* a model loaded and attached, nothing else going on
Loaded(name) ==
    /\ scene = {LightNode, ModelNode(1)}
    /\ currentObject = 1
    /\ objects = <<name>>
    /\ pending = EmptyBag
    /\ pc = "idle"
    /\ sizes = Nothing
    /\ grid = Nothing
    /\ material = Nothing
    /\ disposed = {}
    /\ outcome = "none"
    /\ log = <<>>
    /\ history = <<>>

\* calculateCoordinates for the indices 0 .. gridSize, in turn, as the loops
\* of calculateGrid call it (src/app.js:208-218)
InitCoord ==
    /\ Loaded("heart")
    /\ voxelsPerUnit \in 1..MaxCoordDensity
    /\ \E gridSize \in 0..MaxGridSize : input = [gridSize |-> gridSize, index |-> 0]
    /\ output = <<>>

CoordStep ==
    /\ input.index <= input.gridSize
    /\ output' = Append(output, calculateCoordinates(input.index, input.gridSize, voxelsPerUnit))
    /\ input' = [input EXCEPT !.index = @ + 1]
    /\ UNCHANGED <<scene, currentObject, objects, pending, voxelsPerUnit, disposed, pipeline>>

NextCoord == CoordStep

SpecCoord == InitCoord /\ [][NextCoord]_vars

\* calculateGrid on arbitrary non-negative extents
InitGrid ==
    /\ \E name \in ModelNames : Loaded(name)
    /\ voxelsPerUnit \in 1..MaxSamplerDensity
    /\ \E sizeX \in 0..MaxExtent, sizeY \in 0..MaxExtent, sizeZ \in 0..MaxExtent :
          input = [sizeX |-> sizeX, sizeY |-> sizeY, sizeZ |-> sizeZ, done |-> FALSE]
    /\ output = Nothing

GridStep ==
    /\ ~input.done
    /\ output' = calculateGrid(input.sizeX, input.sizeY, input.sizeZ, voxelsPerUnit,
                               objects[currentObject])
    /\ input' = [input EXCEPT !.done = TRUE]
    /\ UNCHANGED <<scene, currentObject, objects, pending, voxelsPerUnit, disposed, pipeline>>

NextGrid == GridStep

SpecGrid == InitGrid /\ [][NextGrid]_vars

\* doesVoxelIntersectObject on the cells of the grid of the loaded model
InitSampler ==
    /\ \E name \in ModelNames : Loaded(name)
    /\ voxelsPerUnit \in 1..MaxSamplerDensity
    /\ LET dimensions == getDimensions(objects[currentObject])
           sizeX == dimensions.x * voxelsPerUnit
           sizeY == dimensions.y * voxelsPerUnit
           sizeZ == dimensions.z * voxelsPerUnit
       IN  \E i \in 0..sizeX, j \in 0..sizeY, k \in 0..sizeZ :
              input = [x    |-> calculateCoordinates(i, sizeX, voxelsPerUnit),
                       y    |-> calculateCoordinates(j, sizeY, voxelsPerUnit),
                       z    |-> calculateCoordinates(k, sizeZ, voxelsPerUnit),
                       size |-> FDivInt(FromInt(1), voxelsPerUnit),
                       done |-> FALSE]
    /\ output = Nothing

SamplerStep ==
    /\ ~input.done
    /\ output' = doesVoxelIntersectObject(input.x, input.y, input.z, input.size,
                                          objects[currentObject])
    /\ input' = [input EXCEPT !.done = TRUE]
    /\ UNCHANGED <<scene, currentObject, objects, pending, voxelsPerUnit, disposed, pipeline>>

NextSampler == SamplerStep

SpecSampler == InitSampler /\ [][NextSampler]_vars

(***************************************************************************)
(* Properties.                                                             *)
(***************************************************************************)
RECURSIVE SeqSum(_)
SeqSum(s) == IF Len(s) = 0 THEN 0 ELSE s[1] + SeqSum(SubSeq(s, 2, Len(s)))

\* the number of cells of a grid, and the JavaScript index triples they have
CellCount(g) ==
    SeqSum([i \in 1..Len(g) |-> SeqSum([j \in 1..Len(g[i]) |-> Len(g[i][j])])])

CellIndices(g) ==
    UNION {UNION {{<<i - 1, j - 1, k - 1>> : k \in 1..Len(g[i][j])} : j \in 1..Len(g[i])} :
              i \in 1..Len(g)}

\* C1: for non-negative extents calculateGrid produces exactly
\* (sizeX+1)*(sizeY+1)*(sizeZ+1) cells, one for each index triple of
\* [0, sizeX] x [0, sizeY] x [0, sizeZ], none twice and none left out; the
\* cell of a triple carries the coordinates of that triple.
C1_GridIsComplete ==
    input.done =>
        /\ CellCount(output) = (input.sizeX + 1) * (input.sizeY + 1) * (input.sizeZ + 1)
        /\ CellIndices(output) = (0..input.sizeX) \X (0..input.sizeY) \X (0..input.sizeZ)
        /\ \A t \in CellIndices(output) :
              LET cell == output[t[1] + 1][t[2] + 1][t[3] + 1]
              IN  /\ cell.x = calculateCoordinates(t[1], input.sizeX, voxelsPerUnit)
                  /\ cell.y = calculateCoordinates(t[2], input.sizeY, voxelsPerUnit)
                  /\ cell.z = calculateCoordinates(t[3], input.sizeZ, voxelsPerUnit)

C1_Witness ==
    /\ input.done
    /\ input.sizeX = 2 /\ input.sizeY = 1 /\ input.sizeZ = 0
    /\ CellCount(output) = 6

IsPowerOfTwo(n) == \E e \in 0..14 : n = 2 ^ e

\* |a - b| of two finite Numbers, exactly
AbsDiffMag(a, b) ==
    IF a.neg # b.neg THEN BigAdd(a.mag, b.mag)
    ELSE IF BigCmp(a.mag, b.mag) >= 0 THEN BigSub(a.mag, b.mag)
    ELSE BigSub(b.mag, a.mag)

\* |a - b| <= (gridSize + 2) * 2^-(Precision - 2) * unit: a and b agree up to
\* the rounding errors of the three operations of calculateCoordinates
WithinRounding(a, b, gridSize, unit) ==
    /\ IsFinite(a) /\ IsFinite(b)
    /\ BigCmp(BigMul(AbsDiffMag(a, b), BigPow2(Precision - 2)),
              BigMulSmall(unit.mag, gridSize + 2)) <= 0

VoxelSizeOf(perUnit) == FDivInt(FromInt(1), perUnit)

Step(n) == FSub(output[n + 1], output[n])

\* C2 as stated: for positive density, coord(i+1) - coord(i) equals exactly
\* 1/density for every index i with 0 <= i < gridSize.
C2_ExactlyEvenlySpaced ==
    \A n \in 1..(Len(output) - 1) : FEq(Step(n), VoxelSizeOf(voxelsPerUnit))

\* C2 amended: for positive density, calculateCoordinates is strictly
\* increasing in the index and evenly spaced up to floating-point rounding:
\* the computed coord(i+1) - coord(i) differs from the computed 1/density by
\* at most (gridSize+2) * 2^-51 / density, and equals it exactly when the
\* density is a power of two.
C2_EvenlySpacedUpToRounding ==
    \A n \in 1..(Len(output) - 1) :
        /\ FLess(output[n], output[n + 1])
        /\ WithinRounding(Step(n), VoxelSizeOf(voxelsPerUnit), input.gridSize,
                          VoxelSizeOf(voxelsPerUnit))
        /\ IsPowerOfTwo(voxelsPerUnit) => FEq(Step(n), VoxelSizeOf(voxelsPerUnit))

C2_Witness ==
    /\ Len(output) = input.gridSize + 1
    /\ input.gridSize >= 3
    /\ voxelsPerUnit = DefaultVoxelsPerUnit
    /\ \E n \in 1..(Len(output) - 1) : ~FEq(Step(n), VoxelSizeOf(voxelsPerUnit))

\* C3 as stated: the cell centres of the indices 0..gridSize are symmetric
\* about 0: coord(i) = -coord(gridSize - i) for every i in 0..gridSize.
C3_SymmetricAboutOrigin ==
    Len(output) = input.gridSize + 1 =>
        \A i \in 0..input.gridSize :
            FEq(output[i + 1], FNeg(output[input.gridSize - i + 1]))

\* C3 amended: the cell centres of the nominal indices 0..gridSize-1 are
\* symmetric about 0 up to floating-point rounding: coord(i) and
\* -coord(gridSize-1-i) differ by at most (gridSize+2) * 2^-51 / density and
\* are equal when the density is a power of two; the extra cell at index
\* gridSize has no mirror image, its centre lies farther from the origin
\* than the centre of cell 0.
C3_NominalCellsSymmetric ==
    Len(output) = input.gridSize + 1 =>
        /\ \A i \in 0..(input.gridSize - 1) :
              /\ WithinRounding(output[i + 1], FNeg(output[input.gridSize - i]),
                                input.gridSize, VoxelSizeOf(voxelsPerUnit))
              /\ IsPowerOfTwo(voxelsPerUnit) =>
                    FEq(output[i + 1], FNeg(output[input.gridSize - i]))
        /\ FLess(FNeg(output[1]), output[input.gridSize + 1])

C3_Witness ==
    /\ Len(output) = input.gridSize + 1
    /\ input.gridSize >= 3
    /\ ~IsPowerOfTwo(voxelsPerUnit)
    /\ \E i \in 0..(input.gridSize - 1) :
          ~FEq(output[i + 1], FNeg(output[input.gridSize - i]))

\* the twelve rays of C4: origin and axis of the direction
TwelveRays(x, y, z, edge) ==
    LET h  == FDivInt(edge, 2)
        xs == {FSub(x, h), FAdd(x, h)}
        ys == {FSub(y, h), FAdd(y, h)}
        zs == {FSub(z, h), FAdd(z, h)}
    IN  {<<<<FSub(x, h), b, c>>, 1>> : <<b, c>> \in ys \X zs}
        \cup {<<<<a, FSub(y, h), c>>, 2>> : <<a, c>> \in xs \X zs}
        \cup {<<<<a, b, FSub(z, h)>>, 3>> : <<a, b>> \in xs \X ys}

\* C4: doesVoxelIntersectObject(x, y, z, size) is true exactly when one of
\* the twelve rays (from the four corners of the left face along +X, of the
\* bottom face along +Y, of the back face along +Z) has a surface hit at a
\* distance <= size; it writes neither the scene nor the object.
C4_TrueIffSomeRayHitsWithinSize ==
    input.done =>
        /\ Cardinality(TwelveRays(input.x, input.y, input.z, input.size)) = 12
        /\ output = (\E ray \in TwelveRays(input.x, input.y, input.z, input.size) :
                        LET hits == intersectObject(objects[currentObject], ray[1], ray[2])
                        IN  \E n \in 1..Len(hits) : FLeq(hits[n], input.size))
        /\ scene = {LightNode, ModelNode(currentObject)}
        /\ disposed = {}

C4_Witness ==
    /\ input.done
    /\ output = TRUE
    /\ \E ray \in TwelveRays(input.x, input.y, input.z, input.size) :
          intersectObject(objects[currentObject], ray[1], ray[2]) = <<>>

Before(p, event) == \E a \in 1..(p - 1) : log[a] = event

\* C5: in every voxelize pass the object is removed from the scene only
\* after the grid has been computed and the material captured, nothing is
\* sampled or captured after the removal, and drawGrid starts only after it.
C5_RemovalAfterSamplingAndCapture ==
    \A p \in 1..Len(log) :
        /\ log[p] = "remove" =>
              /\ Before(p, "calculateGrid")
              /\ Before(p, "clone")
              /\ \A q \in (p + 1)..Len(log) : log[q] \notin {"calculateGrid", "clone"}
        /\ log[p] = "drawGrid" => Before(p, "remove")

C5_Witness ==
    /\ pc = "idle"
    /\ outcome = "returned"
    /\ log = <<"getDimensions", "calculateGrid", "clone", "remove", "clearScene", "drawGrid">>
    /\ ModelNode(currentObject) \notin scene

\* C6: whenever doesVoxelIntersectObject runs, currentObject is attached to
\* the scene.
C6_SamplingOnlyWhileAttached ==
    (pc = "calculateGrid" /\ sizes[1] >= 0 /\ sizes[2] >= 0 /\ sizes[3] >= 0) =>
        ModelNode(currentObject) \in scene

\* C7: when drawGrid starts, the source object is detached from the scene,
\* the geometry and the material of every mesh of the source object have
\* been disposed, and the material handed to drawGrid is a captured copy
\* that has not been disposed.
C7_DrawGridAfterRelease ==
    pc = "drawGrid" =>
        /\ ModelNode(currentObject) \notin scene
        /\ \A n \in 1..NumMeshes(objects[currentObject]) :
              /\ MeshGeometry(currentObject, n) \in disposed
              /\ MeshMaterial(currentObject, n) \in disposed
        /\ material # Nothing
        /\ material[1] = "clone"
        /\ material \notin disposed

\* C8: with a density of 0 or below when voxelize is invoked the pass raises
\* an error and aborts before building a grid: no pass gets past
\* getDimensions, and none completes, with such a density.
C8_NonPositiveDensityAborts ==
    /\ pc # "idle" => voxelsPerUnit > 0
    /\ \A n \in 1..Len(history) : history[n].density > 0

\* C9: two voxelize passes in a row on the same loaded model with the same
\* density leave the same voxel meshes in the scene: the same count and the
\* same positions.
C9_RepeatedPassSameVoxels ==
    \A n \in 2..Len(history) :
        (history[n].object = history[n - 1].object
            /\ history[n].density = history[n - 1].density) =>
                /\ history[n].count = history[n - 1].count
                /\ history[n].positions = history[n - 1].positions

C9_Witness ==
    /\ Len(history) >= 2
    /\ history[2].object = history[1].object
    /\ history[2].density = history[1].density
    /\ history[2].count > 1
    /\ history[2].count = Cardinality(VoxelMeshes(scene))

\* C10: at most one loaded model object is attached to the scene, and an
\* attached model object is the one currentObject refers to.
C10_OnlyCurrentObjectAttached ==
    \A n \in scene : IsModelNode(n) => (currentObject # 0 /\ n = ModelNode(currentObject))

====
